---- MODULE Spec2Model ----
(***************************************************************************)
(* Model of scripts/convert_tools_docs.py: the conversion of a directory   *)
(* of tool description .md files into .mdx files with frontmatter.         *)
(*                                                                         *)
(* Python str values are TLA+ strings; the str methods the script uses     *)
(* (replace, strip, split, startswith, capitalize, join, slicing) are      *)
(* operators computed as CPython computes them.                            *)
(***************************************************************************)
EXTENDS Integers, Sequences, FiniteSets, TLC

VARIABLES
    pc,               \* position of the interpreter in main / convert_md_to_mdx
    source,           \* the source directory: set of [name, content] files
    dest,             \* the destination tree: path -> text of the file there
    dirs,             \* directories that exist under (and including) dest_dir
    pending,          \* files source_path.glob('*.md') has still to yield
    md_file,          \* loop variable of convert_md_to_mdx (a file name)
    content,          \* local of convert_md_to_mdx / argument of extract_description
    title,            \* local: result of extract_title
    description,      \* local: result of extract_description
    category,         \* local: result of determine_category
    mdx_content,      \* local: result of MDX_TEMPLATE.render
    converted_files,  \* local list of convert_md_to_mdx, its return value
    stdout,           \* the lines printed so far
    trace             \* the steps taken on the files so far, in order

vars == <<pc, source, dest, dirs, pending, md_file, content, title, description,
          category, mdx_content, converted_files, stdout, trace>>

----------------------------------------------------------------------------
(* Python str primitives *)

\* s[i] for a 1-based index
Char(s, i) == SubSeq(s, i, i)

\* the characters str.strip() and str.split() treat as whitespace
Whitespace == {" ", "\t", "\n", "\r"}

RECURSIVE SkipLeft(_, _)
SkipLeft(s, i) ==
    IF i <= Len(s) /\ Char(s, i) \in Whitespace THEN SkipLeft(s, i + 1) ELSE i

RECURSIVE SkipRight(_, _)
SkipRight(s, j) ==
    IF j >= 1 /\ Char(s, j) \in Whitespace THEN SkipRight(s, j - 1) ELSE j

\* s.strip()
Strip(s) == SubSeq(s, SkipLeft(s, 1), SkipRight(s, Len(s)))

\* s.startswith(p)
StartsWith(s, p) == Len(s) >= Len(p) /\ SubSeq(s, 1, Len(p)) = p

\* s.endswith(p)
EndsWith(s, p) == Len(s) >= Len(p) /\ SubSeq(s, Len(s) - Len(p) + 1, Len(s)) = p

\* s.replace(old, new): leftmost non-overlapping occurrences
RECURSIVE Replace(_, _, _)
Replace(s, old, new) ==
    IF Len(s) < Len(old) THEN s
    ELSE IF StartsWith(s, old)
         THEN new \o Replace(SubSeq(s, Len(old) + 1, Len(s)), old, new)
         ELSE Char(s, 1) \o Replace(SubSeq(s, 2, Len(s)), old, new)

\* sep.join(words)
RECURSIVE Join(_, _)
Join(words, sep) ==
    IF words = <<>> THEN ""
    ELSE IF Len(words) = 1 THEN words[1]
    ELSE words[1] \o sep \o Join(Tail(words), sep)

\* the positions of the character c in s
Positions(s, c) == {i \in 1..Len(s) : Char(s, i) = c}

\* the pieces of s between the cut positions at and after `from`
RECURSIVE Pieces(_, _, _)
Pieces(s, cuts, from) ==
    LET later == {i \in cuts : i >= from} IN
    IF later = {} THEN <<SubSeq(s, from, Len(s))>>
    ELSE LET nxt == CHOOSE i \in later : \A j \in later : i <= j
         IN  <<SubSeq(s, from, nxt - 1)>> \o Pieces(s, cuts, nxt + 1)

\* s.split('\n'): always at least one piece, empty pieces kept
SplitLines(s) == Pieces(s, Positions(s, "\n"), 1)

\* s.split(): runs of whitespace separate, empty pieces dropped
SplitWords(s) ==
    LET cuts == {i \in 1..Len(s) : Char(s, i) \in Whitespace}
    IN  SelectSeq(Pieces(s, cuts, 1), LAMBDA w : w # "")

LowerLetters == "abcdefghijklmnopqrstuvwxyz"
UpperLetters == "ABCDEFGHIJKLMNOPQRSTUVWXYZ"

\* the character of `to` at the place c has in `from`; c itself if it has none
MapChar(c, from, to) ==
    LET at == Positions(from, c)
    IN  IF at = {} THEN c ELSE Char(to, CHOOSE i \in at : TRUE)

RECURSIVE MapString(_, _, _)
MapString(s, from, to) ==
    IF s = "" THEN ""
    ELSE MapChar(Char(s, 1), from, to) \o MapString(SubSeq(s, 2, Len(s)), from, to)

\* word.capitalize(): first character upper-cased, the rest lower-cased
Capitalize(w) ==
    IF w = "" THEN ""
    ELSE MapChar(Char(w, 1), LowerLetters, UpperLetters)
         \o MapString(SubSeq(w, 2, Len(w)), UpperLetters, LowerLetters)

\* s.lower()
Lower(s) == MapString(s, UpperLetters, LowerLetters)

----------------------------------------------------------------------------
(* Module constants of the script *)

IGNORE_FILES == {"kill_bash.md", "remotion.md"}

\* the exclusion list with web_search.md forgotten
EXCLUDED_TOOLS_short == {"todo_write_cc.md", "bash_output.md"}

EXCLUDED_TOOLS == {"todo_write_cc.md", "web_search.md", "bash_output.md"}

\* the code fence of the template: three backquotes in the script; a
\* backquote is no character of a TLA+ string, so the tilde fence stands for it
Fence == "~~~"

\* MDX_TEMPLATE.render(title, description, category, content): the four
\* values substituted verbatim into the template text
Render(t, d, c, body) ==
    "---\ntitle: " \o t \o "\ndescription: " \o d \o "\ncategory: " \o c
    \o "\n---\n\n## Tool Description\n\n" \o Fence \o "\n" \o body \o "\n" \o Fence

----------------------------------------------------------------------------
(* extract_title *)

\* extract_title without the replacement of underscores
extract_title_keeps_underscores(filename) ==
    LET t     == Replace(filename, ".md", "")
        words == SplitWords(t)
    IN  Join([i \in 1..Len(words) |-> Capitalize(words[i])], " ")

extract_title(filename) ==
    LET t     == Replace(Replace(filename, ".md", ""), "_", " ")
        words == SplitWords(t)
    IN  Join([i \in 1..Len(words) |-> Capitalize(words[i])], " ")

----------------------------------------------------------------------------
(* extract_description *)

MinLineLen == 20
MaxDescLen == 150
KeptLen == 147
Ellipsis == "..."
FallbackDescription == "Tool documentation and usage guide"

\* the test of line 46 without its length test
SkippedWhateverLength(line) == line = "" \/ StartsWith(line, "#")

\* the test of line 46 on a stripped line: skipped lines
Skipped(line) == line = "" \/ StartsWith(line, "#") \/ Len(line) < MinLineLen

\* lines 50-53 left out
StripBulletNever(line) == line

\* lines 50-53: a leading bullet marker is cut off
StripBullet(line) ==
    IF StartsWith(line, "- ") THEN SubSeq(line, 3, Len(line))
    ELSE IF StartsWith(line, "* ") THEN SubSeq(line, 3, Len(line))
    ELSE line

\* lines 56-58 keeping one character too many
TruncateOffByOne(d) ==
    IF Len(d) > MaxDescLen THEN SubSeq(d, 1, KeptLen + 1) \o Ellipsis ELSE d

\* lines 56-58 left out
TruncateNever(d) == d

\* lines 56-58
Truncate(d) ==
    IF Len(d) > MaxDescLen THEN SubSeq(d, 1, KeptLen) \o Ellipsis ELSE d

\* lines 49-60: the description made of the first line that is not skipped
DescribeLine(line) == Truncate(Strip(StripBullet(line)))

RECURSIVE ScanLines(_, _)
ScanLines(lines, i) ==
    IF i > Len(lines) THEN FallbackDescription
    ELSE LET line == Strip(lines[i])
         IN  IF Skipped(line) THEN ScanLines(lines, i + 1) ELSE DescribeLine(line)

extract_description(text) == ScanLines(SplitLines(Strip(text)), 1)

----------------------------------------------------------------------------
(* determine_category *)

app_tools == {"blender", "pixelmator", "notes"}

determine_category(filename, text) ==
    LET base_name == Replace(filename, ".md", "")
    IN  IF base_name \in app_tools THEN "App Tools" ELSE "System Tools"

----------------------------------------------------------------------------
(* The two pure derivations on their own: extract_description applied to a  *)
(* content, and extract_title / determine_category applied to a file name.  *)

\* a local that is not bound yet
Unbound == ""

\* the destination tree with no file in it
NoFiles == [p \in {} |-> ""]

MaxLines == 2
MaxParts == 2

\* n characters of text
RECURSIVE Text(_)
Text(n) ==
    IF n = 0 THEN ""
    ELSE IF n % 2 = 0 THEN LET h == Text(n \div 2) IN h \o h
    ELSE "x" \o Text(n - 1)

\* body lengths on both sides of the two thresholds of extract_description
BodyLens ==
    {0} \cup (MinLineLen - 2 .. MinLineLen) \cup (MaxDescLen - 1 .. MaxDescLen + 1)

\* what a line starts with: nothing, either bullet marker, a heading marker,
\* indentation
LinePrefixes == {"", "- ", "* ", "# ", "  "}

SampleLines == {p \o Text(n) : p \in LinePrefixes, n \in BodyLens}

\* file contents of up to MaxLines lines, each line ended by a newline
RECURSIVE ContentsOf(_)
ContentsOf(k) ==
    IF k = 0 THEN {""}
    ELSE {l \o "\n" \o c : l \in SampleLines, c \in ContentsOf(k - 1)}

SampleContents == UNION {ContentsOf(k) : k \in 0..MaxLines}

\* file names made of up to MaxParts parts
NameParts ==
    {"blender", "notes", "pixelmator", "Notes", "kill_bash", "_", "web_", ".md", ".txt", "x"}

RECURSIVE NamesOf(_)
NamesOf(k) ==
    IF k = 0 THEN {""}
    ELSE {p \o n : p \in NameParts, n \in NamesOf(k - 1)}

SampleNames == UNION {NamesOf(k) : k \in 1..MaxParts}

Idle ==
    /\ source = {}
    /\ dest = NoFiles
    /\ dirs = {}
    /\ pending = {}
    /\ mdx_content = Unbound
    /\ converted_files = <<>>
    /\ stdout = <<>>
    /\ trace = <<>>

InitDescription ==
    /\ pc = "describe"
    /\ content \in SampleContents
    /\ md_file = Unbound
    /\ title = Unbound
    /\ description = Unbound
    /\ category = Unbound
    /\ Idle

\* description = extract_description(content)
CallExtractDescription ==
    /\ pc = "describe"
    /\ description' = extract_description(content)
    /\ pc' = "described"
    /\ UNCHANGED <<source, dest, dirs, pending, md_file, content, title, category,
                   mdx_content, converted_files, stdout, trace>>

NextDescription == CallExtractDescription

SpecDescription == InitDescription /\ [][NextDescription]_vars

InitNames ==
    /\ pc = "name"
    /\ md_file \in SampleNames
    /\ content \in {"", "blender\n"}
    /\ title = Unbound
    /\ description = Unbound
    /\ category = Unbound
    /\ Idle

\* title = extract_title(md_file.name)
CallExtractTitle ==
    /\ pc = "name"
    /\ title' = extract_title(md_file)
    /\ pc' = "titled"
    /\ UNCHANGED <<source, dest, dirs, pending, md_file, content, description,
                   category, mdx_content, converted_files, stdout, trace>>

\* category = determine_category(md_file.name, content)
CallDetermineCategory ==
    /\ pc = "titled"
    /\ category' = determine_category(md_file, content)
    /\ pc' = "categorized"
    /\ UNCHANGED <<source, dest, dirs, pending, md_file, content, title,
                   description, mdx_content, converted_files, stdout, trace>>

NextNames == CallExtractTitle \/ CallDetermineCategory

SpecNames == InitNames /\ [][NextNames]_vars

----------------------------------------------------------------------------
(* pathlib and sorted() *)

\* Path.name matches the glob pattern '*.md' (hidden files included)
MatchesGlob(name) == EndsWith(name, ".md")

\* the last position of a dot in name, 0 if there is none
LastDot(name) ==
    LET dots == Positions(name, ".")
    IN  IF dots = {} THEN 0 ELSE CHOOSE i \in dots : \A j \in dots : j <= i

\* Path.stem: the name without its last suffix; a name whose only dot leads
\* it, or ends it, has no suffix
Stem(name) ==
    LET i == LastDot(name)
    IN  IF 1 < i /\ i < Len(name) THEN SubSeq(name, 1, i - 1) ELSE name

\* the characters of the paths, in code point order
CodePoints == " -./0123456789ABCDEFGHIJKLMNOPQRSTUVWXYZ_abcdefghijklmnopqrstuvwxyz"

Ord(c) == CHOOSE i \in Positions(CodePoints, c) : TRUE

\* a < b for two str
RECURSIVE Less(_, _)
Less(a, b) ==
    IF b = "" THEN FALSE
    ELSE IF a = "" THEN TRUE
    ELSE IF Char(a, 1) = Char(b, 1)
         THEN Less(SubSeq(a, 2, Len(a)), SubSeq(b, 2, Len(b)))
         ELSE Ord(Char(a, 1)) < Ord(Char(b, 1))

\* the list with x put before the first element greater than x
RECURSIVE Insert(_, _)
Insert(x, sorted) ==
    IF sorted = <<>> THEN <<x>>
    ELSE IF Less(x, Head(sorted)) THEN <<x>> \o sorted
    ELSE <<Head(sorted)>> \o Insert(x, Tail(sorted))

\* sorted(list)
RECURSIVE Sorted(_)
Sorted(list) ==
    IF list = <<>> THEN <<>> ELSE Insert(Head(list), Sorted(Tail(list)))

----------------------------------------------------------------------------
(* main and convert_md_to_mdx *)

MaxFiles == 2

source_dir ==
    "/Users/sarathmenon/Documents/startup/image_generation/mix/go_backend/internal/llm/tools/descriptions"
dest_dir ==
    "/Users/sarathmenon/Documents/startup/image_generation/mix/docs/content/docs/backend/tools"

BulletsContent ==
    "- A short bullet.\n* This second bullet line definitely exceeds twenty characters easily.\n"
BlenderContent ==
    "# Blender\nThis is a line with more than twenty characters describing blender.\n"
HeadingsContent == "# Title\n\n   \nshort line\n   ## Sub heading of some length\n"
ShortContent == "  " \o Text(MinLineLen - 1) \o "  \n- " \o Text(MinLineLen - 3) \o "\n"
LongContent == Text(MaxDescLen + 3) \o "\n"

\* the files a source directory is made of
Docs ==
    {[name |-> "kill_bash.md",     content |-> BlenderContent],
     [name |-> "remotion.md",      content |-> ""],
     [name |-> "todo_write_cc.md", content |-> BulletsContent],
     [name |-> "web_search.md",    content |-> LongContent],
     [name |-> "bash_output.md",   content |-> HeadingsContent],
     [name |-> "blender.md",       content |-> BlenderContent],
     [name |-> "custom_tool.md",   content |-> BulletsContent],
     [name |-> "custom_tool.md",   content |-> LongContent],
     [name |-> "empty.md",         content |-> ""],
     [name |-> "empty.md",         content |-> HeadingsContent],
     [name |-> "notes.md",         content |-> ShortContent],
     [name |-> "blender.md.md",    content |-> LongContent],
     [name |-> ".md",              content |-> BlenderContent],
     [name |-> ".md.md",           content |-> BulletsContent],
     [name |-> "notes.txt",        content |-> BlenderContent]}

\* a directory holds one file of a name
Directories ==
    {d \in SUBSET Docs :
        /\ Cardinality(d) <= MaxFiles
        /\ \A f, g \in d : f.name = g.name => f = g}

Init ==
    /\ pc = "main"
    /\ source \in Directories
    /\ dest = NoFiles
    /\ dirs = {}
    /\ pending = {}
    /\ md_file = Unbound
    /\ content = Unbound
    /\ title = Unbound
    /\ description = Unbound
    /\ category = Unbound
    /\ mdx_content = Unbound
    /\ converted_files = <<>>
    /\ stdout = <<>>
    /\ trace = <<>>

\* one step of the run: what was done, for which file
Step(op, name) == [op |-> op, file |-> name]

\* the text of the source file of a name
ContentOf(name) == (CHOOSE f \in source : f.name = name).content

\* line 120
category_folder == Replace(Lower(category), " ", "-")

\* line 125 with md_file.name in the place of md_file.stem
mdx_filename_of_name == md_file \o ".mdx"

\* line 125
mdx_filename == Stem(md_file) \o ".mdx"

\* the path of mdx_file below dest_dir, as line 131 formats it
mdx_path == category_folder \o "/" \o mdx_filename

Locals == <<md_file, content, title, description, category, mdx_content>>

\* "-" * 50
Rule == Text(0) \o "--------------------------------------------------"

\* lines 142-145 (the printed lines are kept in ASCII: "->" and "+" stand for
\* the arrow and the check mark of lines 132 and 153)
Start ==
    /\ pc = "main"
    /\ stdout' = stdout \o <<"Converting MD files to MDX with Jinja2 templating...",
                             "Source: " \o source_dir,
                             "Destination: " \o dest_dir,
                             Rule>>
    /\ pc' = "mkdest"
    /\ UNCHANGED <<source, dest, dirs, pending, Locals, converted_files, trace>>

\* lines 84-86
MakeDest ==
    /\ pc = "mkdest"
    /\ dirs' = dirs \cup {"."}
    /\ converted_files' = <<>>
    /\ pc' = "glob"
    /\ UNCHANGED <<source, dest, pending, Locals, stdout, trace>>

\* line 84 raising OSError
MakeDestFails ==
    /\ pc = "mkdest"
    /\ pc' = "failed"
    /\ UNCHANGED <<source, dest, dirs, pending, Locals, converted_files, stdout, trace>>

\* line 89: the files the glob will yield
Glob ==
    /\ pc = "glob"
    /\ pending' = {f.name : f \in {g \in source : MatchesGlob(g.name)}}
    /\ pc' = "next"
    /\ UNCHANGED <<source, dest, dirs, Locals, converted_files, stdout, trace>>

\* line 89: the glob yields a file, in no particular order
NextFile ==
    /\ pc = "next"
    /\ \E name \in pending :
          /\ md_file' = name
          /\ pending' = pending \ {name}
    /\ pc' = "filter"
    /\ UNCHANGED <<source, dest, dirs, content, title, description, category,
                   mdx_content, converted_files, stdout, trace>>

\* lines 91-93
SkipIgnored ==
    /\ pc = "filter"
    /\ md_file \in IGNORE_FILES
    /\ stdout' = Append(stdout, "Skipping " \o md_file \o " (ignored)")
    /\ trace' = Append(trace, Step("filter", md_file))
    /\ pc' = "next"
    /\ UNCHANGED <<source, dest, dirs, pending, Locals, converted_files>>

\* lines 96-98
SkipExcluded ==
    /\ pc = "filter"
    /\ md_file \notin IGNORE_FILES
    /\ md_file \in EXCLUDED_TOOLS
    /\ stdout' = Append(stdout, "Skipping " \o md_file \o " (excluded)")
    /\ trace' = Append(trace, Step("filter", md_file))
    /\ pc' = "next"
    /\ UNCHANGED <<source, dest, dirs, pending, Locals, converted_files>>

\* line 100
Accept ==
    /\ pc = "filter"
    /\ md_file \notin IGNORE_FILES
    /\ md_file \notin EXCLUDED_TOOLS
    /\ stdout' = Append(stdout, "Processing " \o md_file \o "...")
    /\ trace' = Append(trace, Step("filter", md_file))
    /\ pc' = "read"
    /\ UNCHANGED <<source, dest, dirs, pending, Locals, converted_files>>

\* lines 103-104
ReadFile ==
    /\ pc = "read"
    /\ content' = ContentOf(md_file)
    /\ trace' = Append(trace, Step("read", md_file))
    /\ pc' = "extract"
    /\ UNCHANGED <<source, dest, dirs, pending, md_file, title, description,
                   category, mdx_content, converted_files, stdout>>

\* lines 103-104 raising OSError, caught: the file is skipped, the loop goes on
ReadFileFailsAndContinues ==
    /\ pc = "read"
    /\ trace' = Append(trace, Step("read_failed", md_file))
    /\ pc' = "next"
    /\ UNCHANGED <<source, dest, dirs, pending, Locals, converted_files, stdout>>

\* lines 103-104 raising OSError
ReadFileFails ==
    /\ pc = "read"
    /\ trace' = Append(trace, Step("read_failed", md_file))
    /\ pc' = "failed"
    /\ UNCHANGED <<source, dest, dirs, pending, Locals, converted_files, stdout>>

\* lines 107-109
ExtractMetadata ==
    /\ pc = "extract"
    /\ title' = extract_title(md_file)
    /\ description' = extract_description(content)
    /\ category' = determine_category(md_file, content)
    /\ trace' = Append(trace, Step("extract", md_file))
    /\ pc' = "render"
    /\ UNCHANGED <<source, dest, dirs, pending, md_file, content, mdx_content,
                   converted_files, stdout>>

\* lines 112-117
RenderMdx ==
    /\ pc = "render"
    /\ mdx_content' = Render(title, description, category, content)
    /\ trace' = Append(trace, Step("render", md_file))
    /\ pc' = "mkdir"
    /\ UNCHANGED <<source, dest, dirs, pending, md_file, content, title,
                   description, category, converted_files, stdout>>

\* lines 120-122
MakeCategoryDir ==
    /\ pc = "mkdir"
    /\ dirs' = dirs \cup {category_folder}
    /\ trace' = Append(trace, Step("mkdir", md_file))
    /\ pc' = "write"
    /\ UNCHANGED <<source, dest, pending, Locals, converted_files, stdout>>

\* line 122 raising OSError
MakeCategoryDirFails ==
    /\ pc = "mkdir"
    /\ trace' = Append(trace, Step("mkdir_failed", md_file))
    /\ pc' = "failed"
    /\ UNCHANGED <<source, dest, dirs, pending, Locals, converted_files, stdout>>

\* the tree with text put at path, whatever was there
Put(tree, path, text) ==
    [p \in DOMAIN tree \cup {path} |-> IF p = path THEN text ELSE tree[p]]

\* lines 125-129 with the text kept for a later write
WriteMdxLater ==
    /\ pc = "write"
    /\ pc' = "append"
    /\ UNCHANGED <<source, dest, dirs, pending, Locals, converted_files, stdout, trace>>

\* lines 125-129
WriteMdx ==
    /\ pc = "write"
    /\ dest' = Put(dest, mdx_path, mdx_content)
    /\ trace' = Append(trace, Step("write", md_file))
    /\ pc' = "append"
    /\ UNCHANGED <<source, dirs, pending, Locals, converted_files, stdout>>

\* line 128 raising OSError: the file is not opened, nothing changes
OpenMdxFails ==
    /\ pc = "write"
    /\ trace' = Append(trace, Step("write_failed", md_file))
    /\ pc' = "failed"
    /\ UNCHANGED <<source, dest, dirs, pending, Locals, converted_files, stdout>>

\* line 129 raising OSError: the file was opened, and so truncated, and holds
\* a part of the text
WriteMdxFails ==
    /\ pc = "write"
    /\ \E n \in {0, Len(mdx_content) \div 2} :
          dest' = Put(dest, mdx_path, SubSeq(mdx_content, 1, n))
    /\ trace' = Append(trace, Step("write_failed", md_file))
    /\ pc' = "failed"
    /\ UNCHANGED <<source, dirs, pending, Locals, converted_files, stdout>>

\* lines 131-132
AppendConverted ==
    /\ pc = "append"
    /\ converted_files' = Append(converted_files, mdx_path)
    /\ stdout' = Append(stdout, "  -> Created " \o mdx_path)
    /\ pc' = "next"
    /\ UNCHANGED <<source, dest, dirs, pending, Locals, trace>>

\* line 134: the glob is exhausted, convert_md_to_mdx returns
Return ==
    /\ pc = "next"
    /\ pending = {}
    /\ pc' = "summary"
    /\ UNCHANGED <<source, dest, dirs, pending, Locals, converted_files, stdout, trace>>

\* the decimal digits of a count below 10
Digits(n) == Char("0123456789", n + 1)

\* lines 150-155
Summary ==
    /\ pc = "summary"
    /\ LET listed == Sorted(converted_files)
       IN  stdout' = stdout
                \o <<Rule,
                     "Conversion complete! Converted " \o Digits(Len(converted_files))
                        \o " files:">>
                \o [i \in 1..Len(listed) |-> "  + " \o listed[i]]
                \o <<"\nNext step: Update meta.json to include these files in the sidebar">>
    /\ pc' = "exit"
    /\ UNCHANGED <<source, dest, dirs, pending, Locals, converted_files, trace>>

Next ==
    \/ Start
    \/ MakeDest
    \/ MakeDestFails
    \/ Glob
    \/ NextFile
    \/ SkipIgnored
    \/ SkipExcluded
    \/ Accept
    \/ ReadFile
    \/ ReadFileFails
    \/ ExtractMetadata
    \/ RenderMdx
    \/ MakeCategoryDir
    \/ MakeCategoryDirFails
    \/ WriteMdx
    \/ OpenMdxFails
    \/ WriteMdxFails
    \/ AppendConverted
    \/ Return
    \/ Summary

Spec == Init /\ [][Next]_vars

----------------------------------------------------------------------------
(* Properties of extract_description, checked under SpecDescription *)

\* a line extract_description does not skip: not empty, no heading, at least
\* 20 characters once trimmed
Qualifies(line) ==
    LET t == Strip(line)
    IN  t # "" /\ ~StartsWith(t, "#") /\ Len(t) >= 20

\* the first qualifying line of a text, trimmed; "" if the text has none
FirstQualifying(text) ==
    LET lines == SplitLines(text)
        at    == {i \in 1..Len(lines) : Qualifies(lines[i])}
    IN  IF at = {} THEN ""
        ELSE Strip(lines[CHOOSE i \in at : \A j \in at : i <= j])

\* a trimmed line without its bullet marker
Unbulleted(t) ==
    IF StartsWith(t, "- ") \/ StartsWith(t, "* ")
    THEN Strip(SubSeq(t, 3, Len(t))) ELSE t

\* description is 150 characters ending in the ellipsis
CutTo150 ==
    /\ Len(description) = 150
    /\ SubSeq(description, 148, 150) = "..."

\* C4 as stated: a first qualifying line of more than 150 characters, bulleted
\* or not, gives a description of exactly 150 characters ending in "..."
C4_LongLineCut ==
    (pc = "described" /\ Len(FirstQualifying(content)) > 150) => CutTo150

\* C4 amended: a first qualifying line that is longer than 150 characters once
\* its bullet marker is removed gives a description of exactly 150 characters
\* ending in "..."
C4_LongTextCut ==
    (pc = "described" /\ Len(Unbulleted(FirstQualifying(content))) > 150) => CutTo150

C4_Witness ==
    /\ pc = "described"
    /\ StartsWith(FirstQualifying(content), "* ")
    /\ Len(Unbulleted(FirstQualifying(content))) = 151
    /\ description = Text(147) \o "..."

\* C9: the description is never longer than 150 characters
C9_DescriptionAtMost150 ==
    pc = "described" => Len(description) <= 150

C9_Witness ==
    /\ pc = "described"
    /\ Len(FirstQualifying(content)) = 153
    /\ Len(description) = 150

----------------------------------------------------------------------------
(* Properties of extract_title and determine_category, checked under SpecNames *)

\* the file name without the extension .md
WithoutExtension(name) ==
    IF EndsWith(name, ".md") THEN SubSeq(name, 1, Len(name) - 3) ELSE name

\* C3: the category is "App Tools" exactly for the base names blender,
\* pixelmator and notes, and "System Tools" for every other name
C3_AppToolsIffListed ==
    pc = "categorized" =>
        /\ category \in {"App Tools", "System Tools"}
        /\ category = "App Tools"
              <=> WithoutExtension(md_file) \in {"blender", "pixelmator", "notes"}

\* C8: the title derived from a file name holds no underscore
C8_TitleHasNoUnderscore ==
    pc \in {"titled", "categorized"} => Positions(title, "_") = {}

C8_Witness ==
    /\ pc = "titled"
    /\ md_file = "kill_bash.md"
    /\ title = "Kill Bash"

----------------------------------------------------------------------------
(* Properties of a run, checked under Spec *)

SkipListed ==
    {"kill_bash.md", "remotion.md", "todo_write_cc.md", "web_search.md", "bash_output.md"}

\* the source files a run has to convert
Eligible == {f \in source : EndsWith(f.name, ".md") /\ f.name \notin SkipListed}

\* the name without its extension; the name ".md" is all base name
BaseName(name) == IF name = ".md" THEN name ELSE WithoutExtension(name)

FolderOf(cat) == IF cat = "App Tools" THEN "app-tools" ELSE "system-tools"

\* <category-folder>/<base-name>.mdx
OutputPath(name) ==
    FolderOf(determine_category(name, "")) \o "/" \o BaseName(name) \o ".mdx"

\* the text rendered for a source file
OutputText(name) ==
    LET text == ContentOf(name)
    IN  Render(extract_title(name), extract_description(text),
               determine_category(name, text), text)

Elements(list) == {list[i] : i \in 1..Len(list)}

Count(list, x) == Cardinality({i \in 1..Len(list) : list[i] = x})

Completed == pc \in {"summary", "exit"}

\* C1: a file on the ignore list or the exclusion list is never read, rendered
\* or written, has no output file and no entry in converted_files
C1_SkippedNeverConverted ==
    \A name \in SkipListed :
        /\ \A i \in 1..Len(trace) : trace[i].file = name => trace[i].op = "filter"
        /\ pc \in {"read", "extract", "render", "mkdir", "write", "append"}
              => md_file # name
        /\ \A folder \in {"app-tools", "system-tools"} :
              LET path == folder \o "/" \o WithoutExtension(name) \o ".mdx"
              IN  path \notin DOMAIN dest /\ path \notin Elements(converted_files)

C1_Witness ==
    /\ pc = "exit"
    /\ \E f \in source : f.name = "web_search.md"
    /\ \E f \in source : f.name = "custom_tool.md"
    /\ Len(converted_files) = 1

\* C2 as stated: after a run without error every eligible file has exactly one
\* output file, at <category-folder>/<base-name>.mdx, and converted_files has
\* exactly one entry for each eligible file and no other entry
C2_OneOutputPerFile ==
    Completed =>
        /\ DOMAIN dest = {OutputPath(f.name) : f \in Eligible}
        /\ Cardinality(DOMAIN dest) = Cardinality(Eligible)
        /\ Elements(converted_files) = {OutputPath(f.name) : f \in Eligible}
        /\ \A f \in Eligible : Count(converted_files, OutputPath(f.name)) = 1

\* C2 amended: after a run without error every eligible file has been written
\* to <category-folder>/<base-name>.mdx and converted_files has one entry for
\* each eligible file and no other entry; files of the same base name (".md"
\* and ".md.md") share their output path, and the entries for them are equal
C2_OutputForEveryFile ==
    Completed =>
        /\ DOMAIN dest = {OutputPath(f.name) : f \in Eligible}
        /\ \A f \in Eligible :
              \E g \in Eligible :
                  /\ OutputPath(g.name) = OutputPath(f.name)
                  /\ dest[OutputPath(f.name)] = OutputText(g.name)
        /\ Len(converted_files) = Cardinality(Eligible)
        /\ \A path \in Elements(converted_files) :
              Count(converted_files, path)
                  = Cardinality({f \in Eligible : OutputPath(f.name) = path})
        /\ \A f, g \in Eligible :
              OutputPath(f.name) = OutputPath(g.name) => BaseName(f.name) = BaseName(g.name)

C2_Witness ==
    /\ pc = "exit"
    /\ {f.name : f \in source} = {"blender.md", "custom_tool.md"}
    /\ DOMAIN dest = {"app-tools/blender.mdx", "system-tools/custom_tool.mdx"}
    /\ Len(converted_files) = 2

\* every line of the text is empty, starts with a heading marker or has less
\* than 20 characters once trimmed
AllLinesSkippable(text) ==
    LET lines == SplitLines(text)
    IN  \A i \in 1..Len(lines) :
            \/ lines[i] = ""
            \/ StartsWith(lines[i], "#")
            \/ Len(Strip(lines[i])) < 20

SecondBullet == "This second bullet line definitely exceeds twenty characters easily."

CustomToolWritten ==
    /\ pc = "append"
    /\ md_file = "custom_tool.md"
    /\ content = "- A short bullet.\n* " \o SecondBullet \o "\n"

\* C6 as stated: custom_tool.md with the two bullet lines is written to
\* system-tools/custom-tool.mdx, category "System Tools", described by its
\* second line without the marker
C6_CustomToolHyphenPath ==
    CustomToolWritten =>
        /\ "system-tools/custom-tool.mdx" \in DOMAIN dest
        /\ category = "System Tools"
        /\ description = SecondBullet

\* C6 amended: the output path is system-tools/custom_tool.mdx, the base name
\* of the file kept as it is
C6_CustomToolPath ==
    CustomToolWritten =>
        /\ mdx_path = "system-tools/custom_tool.mdx"
        /\ "system-tools/custom_tool.mdx" \in DOMAIN dest
        /\ dest["system-tools/custom_tool.mdx"]
              = Render("Custom Tool", SecondBullet, "System Tools", content)
        /\ category = "System Tools"
        /\ description = SecondBullet

C6_Witness ==
    /\ CustomToolWritten
    /\ DOMAIN dest = {"system-tools/custom_tool.mdx"}

----------------------------------------------------------------------------
(* Failure and order of a run, checked under Spec *)

Failures == {"read_failed", "mkdir_failed", "write_failed"}

\* the writes that put a file at the path, by their place in the trace
WritesTo(path) ==
    {i \in 1..Len(trace) : trace[i].op = "write" /\ OutputPath(trace[i].file) = path}

\* the output of the i-th step, a write, is on disk as written unless a later
\* write replaced it
Intact(i) ==
    LET path == OutputPath(trace[i].file)
    IN  (\A j \in WritesTo(path) : j <= i)
            => path \in DOMAIN dest /\ dest[path] = OutputText(trace[i].file)

\* a failure ends the run on the spot: it is the last step, nothing can follow,
\* no pending file was touched, the summary is not printed
StopsAtFailure ==
    /\ \A i \in 1..Len(trace) :
          trace[i].op \in Failures => i = Len(trace) /\ pc = "failed"
    /\ pc = "failed" =>
          /\ ~ENABLED Next
          /\ trace # <<>> => trace[Len(trace)].op \in Failures
          /\ \A i \in 1..Len(trace) : trace[i].file \notin pending
          /\ \A i \in 1..Len(stdout) : ~StartsWith(stdout[i], "Conversion complete!")

\* C7 as stated: when the run fails at a file, the outputs written for the
\* files before it are on disk unchanged
C7_FailureKeepsOutputs ==
    /\ StopsAtFailure
    /\ pc = "failed" =>
          \A i \in 1..Len(trace) : trace[i].op = "write" => Intact(i)

\* C7 amended: the outputs written for the files before it are on disk
\* unchanged, but for the one at the output path of the failing file itself,
\* which a failed write leaves truncated (two files of the same base name)
C7_FailureKeepsOtherOutputs ==
    /\ StopsAtFailure
    /\ pc = "failed" =>
          \A i \in 1..Len(trace) :
              trace[i].op = "write" =>
                  \/ Intact(i)
                  \/ /\ trace[Len(trace)].op = "write_failed"
                     /\ OutputPath(trace[Len(trace)].file) = OutputPath(trace[i].file)

C7_Witness ==
    /\ pc = "failed"
    /\ Len(trace) > 6
    /\ trace[6].op = "write"
    /\ trace[Len(trace)].op = "write_failed"
    /\ OutputPath(trace[6].file) # OutputPath(trace[Len(trace)].file)
    /\ dest[OutputPath(trace[6].file)] = OutputText(trace[6].file)
    /\ Cardinality(DOMAIN dest) = 2

StageOrder == <<"filter", "read", "extract", "render", "mkdir", "write">>

\* the stage a step belongs to
StageOf(op) ==
    CASE op = "read_failed" -> "read"
      [] op = "mkdir_failed" -> "mkdir"
      [] op = "write_failed" -> "write"
      [] OTHER -> op

\* the steps taken on a file, in order
StepsOn(name) == SelectSeq(trace, LAMBDA e : e.file = name)

\* the files that were read and are not written yet
BetweenReadAndWrite ==
    {name \in {trace[i].file : i \in 1..Len(trace)} :
        /\ \E i \in 1..Len(trace) : trace[i].file = name /\ trace[i].op = "read"
        /\ \A i \in 1..Len(trace) : trace[i].file = name => trace[i].op # "write"}

\* C10: the files are taken one at a time, each through filter, read,
\* extract, render, mkdir, write in this order, and a file is written before
\* the next one is filtered
C10_OneFileAtATime ==
    /\ \A i \in 1..Len(trace) :
          LET steps == StepsOn(trace[i].file)
          IN  /\ Len(steps) <= Len(StageOrder)
              /\ \A k \in 1..Len(steps) : StageOf(steps[k].op) = StageOrder[k]
    /\ \A i, j \in 1..Len(trace) :
          (i < j /\ trace[i].file = trace[j].file)
              => \A k \in i..j : trace[k].file = trace[i].file
    /\ \A i \in 2..Len(trace) :
          trace[i].op = "filter" =>
              \/ trace[i - 1].op = "write"
              \/ trace[i - 1].op = "filter" /\ trace[i - 1].file \in SkipListed
    /\ Cardinality(BetweenReadAndWrite) <= 1
    /\ pc \in {"filter", "next", "summary", "exit"} => BetweenReadAndWrite = {}

C10_Witness ==
    /\ pc = "mkdir"
    /\ Len(trace) = 10
    /\ trace[6].op = "write"
    /\ trace[7].op = "filter"
    /\ BetweenReadAndWrite = {md_file}

====
